---- MODULE Spec2Model ----
(***************************************************************************)
(* Model of streamlit_app.py: the control-limit calculator, the process-   *)
(* capability calculator, the axis-resolution selection of                 *)
(* create_control_chart, and the script's main flow (widgets, data fetch,  *)
(* the data.empty branch, default LSL/USL, slider, tabs).                  *)
(*                                                                         *)
(* Numbers.  The script computes in binary floating point (pandas/numpy    *)
(* float64).  A float is modelled as a record: NaN, +infinity, or a finite *)
(* value v counted in units of 2^-FracBits.  Every arithmetic result is    *)
(* rounded to Precision significant bits, round-half-to-even, as IEEE 754  *)
(* does with 53 bits; comparisons with NaN are false.                      *)
(***************************************************************************)
EXTENDS Integers, Sequences, FiniteSets, TLC

(* ------------------------------ bounds --------------------------------- *)
\* significand bits of a float (53 in float64) and the bits after the binary
\* point of the smallest spacing; rows of 1.csv; rows of a series handed to a
\* calculator; rows of a data set handed to create_control_chart
Precision == 7
FracBits == 8
MaxFileRows == 3
MaxSeriesRows == 3
MaxChartRows == 2

(* -------------------------- floating point ----------------------------- *)
RECURSIVE Pow2(_)
Pow2(n) == IF n = 0 THEN 1 ELSE 2 * Pow2(n - 1)

Unit == Pow2(FracBits)
\* 2^Precision: one more than the largest significand
Significands == Pow2(Precision)

NaN == [k |-> "nan", v |-> 0]
PosInf == [k |-> "inf", v |-> 0]
Fin(x) == [k |-> "fin", v |-> x]

IsNaN(a) == a.k = "nan"
IsFin(a) == a.k = "fin"

\* Smallest power of two q (>= 1 unit) with num/den < q * 2^Precision: the
\* spacing of representable values around num/den.
RECURSIVE Quantum(_, _, _)
Quantum(num, den, q) ==
    IF num < q * Significands * den THEN q ELSE Quantum(num, den, 2 * q)

\* num/den >= 0 rounded to the nearest representable value, ties to even.
RoundPos(num, den) ==
    LET q == Quantum(num, den, 1)
        k == num \div (den * q)
        rem == num - k * den * q
    IN  IF 2 * rem < den * q THEN k * q
        ELSE IF 2 * rem > den * q THEN (k + 1) * q
        ELSE IF k % 2 = 0 THEN k * q ELSE (k + 1) * q

\* num/den (den > 0) rounded, either sign.
RoundQ(num, den) == IF num >= 0 THEN RoundPos(num, den) ELSE 0 - RoundPos(0 - num, den)

\* int -> float conversion
FromInt(n) == Fin(RoundQ(n * Unit, 1))

FAdd(a, b) ==
    IF IsNaN(a) \/ IsNaN(b) THEN NaN
    ELSE IF a.k = "inf" \/ b.k = "inf" THEN PosInf
    ELSE Fin(RoundQ(a.v + b.v, 1))

FSub(a, b) ==
    IF IsNaN(a) \/ IsNaN(b) THEN NaN
    ELSE IF a.k = "inf" /\ b.k = "inf" THEN NaN
    ELSE IF a.k = "inf" THEN PosInf
    ELSE IF b.k = "inf" THEN NaN \* -inf never arises in the script
    ELSE Fin(RoundQ(a.v - b.v, 1))

\* Finite operands only ever meet NaN here, never infinity.
FMul(a, b) ==
    IF IsNaN(a) \/ IsNaN(b) THEN NaN
    ELSE IF a.k = "inf" \/ b.k = "inf" THEN PosInf
    ELSE Fin(RoundQ(a.v * b.v, Unit))

\* a / b for b # 0 (every division of the script is guarded or divides by a count)
FDiv(a, b) ==
    IF IsNaN(a) \/ IsNaN(b) THEN NaN
    ELSE IF a.k = "inf" \/ b.k = "inf" THEN NaN
    ELSE IF b.v > 0 THEN Fin(RoundQ(a.v * Unit, b.v))
    ELSE Fin(RoundQ((0 - a.v) * Unit, 0 - b.v))

RECURSIVE ISqrtBetween(_, _, _)
ISqrtBetween(x, lo, hi) ==
    \* largest r in lo..hi with r*r <= x, given lo*lo <= x
    IF lo = hi THEN lo
    ELSE LET mid == (lo + hi + 1) \div 2
         IN  IF mid * mid <= x THEN ISqrtBetween(x, mid, hi)
             ELSE ISqrtBetween(x, lo, mid - 1)

\* sqrt of a finite a >= 0, correctly rounded
FSqrt(a) ==
    IF IsNaN(a) THEN NaN
    ELSE IF a.k = "inf" THEN PosInf
    ELSE LET x == a.v * Unit
             s == ISqrtBetween(x, 0, 46340)
             q == Quantum(s, 1, 1)
             lower == (s \div q) * q
             m2 == 2 * lower + q
         IN  IF 4 * x < m2 * m2 THEN Fin(lower)
             ELSE IF 4 * x > m2 * m2 THEN Fin(lower + q)
             ELSE IF (s \div q) % 2 = 0 THEN Fin(lower) ELSE Fin(lower + q)

\* comparisons: anything with NaN is false
FLt(a, b) ==
    /\ ~IsNaN(a) /\ ~IsNaN(b)
    /\ \/ IsFin(a) /\ IsFin(b) /\ a.v < b.v
       \/ IsFin(a) /\ b.k = "inf"
FEq(a, b) ==
    /\ ~IsNaN(a) /\ ~IsNaN(b)
    /\ \/ IsFin(a) /\ IsFin(b) /\ a.v = b.v
       \/ a.k = "inf" /\ b.k = "inf"
FLe(a, b) == FLt(a, b) \/ FEq(a, b)
FNe(a, b) == ~FEq(a, b)

\* Python's builtin min(a, b) / max(a, b): the first argument unless the
\* second compares strictly smaller / larger
PyMin(a, b) == IF FLt(b, a) THEN b ELSE a
PyMax(a, b) == IF FLt(a, b) THEN b ELSE a


(* ------------------------------ the data ------------------------------- *)
\* A DataFrame is a sequence of rows; a row carries the columns the script
\* reads.  An absent (empty) cell of a metric column is NaN.
Metrics == {"tbl_speed", "fom"}

Row(ts, c, b, v, w) ==
    [timestamp |-> ts, campaign |-> c, batch |-> b, tbl_speed |-> v, fom |-> w]

RECURSIVE SeqsUpTo(_, _)
SeqsUpTo(S, n) ==
    IF n = 0 THEN {<<>>}
    ELSE LET shorter == SeqsUpTo(S, n - 1)
         IN  shorter \cup {Append(s, e) : s \in {t \in shorter : Len(t) = n - 1}, e \in S}

\* data[metric]
Column(data, metric) == [i \in 1..Len(data) |-> data[i][metric]]

\* pandas reductions skip NaN (skipna=True)
NotNaN(a) == ~IsNaN(a)
Present(series) == SelectSeq(series, NotNaN)

RECURSIVE SumFrom(_, _, _)
SumFrom(series, i, acc) ==
    IF i > Len(series) THEN acc ELSE SumFrom(series, i + 1, FAdd(acc, series[i]))
\* values.sum(): left-to-right float accumulation
SeriesSum(series) == SumFrom(series, 1, Fin(0))

\* Series.mean(): sum / count of the present values, NaN when there are none
SeriesMean(series) ==
    LET p == Present(series)
    IN  IF Len(p) = 0 THEN NaN ELSE FDiv(SeriesSum(p), FromInt(Len(p)))

\* Series.std(): sample standard deviation (ddof = 1); NaN when fewer than
\* two values are present.  avg = sum/count; sqrt(sum((avg - x)^2) / (count - 1))
SeriesStd(series) ==
    LET p == Present(series)
        n == Len(p)
        avg == FDiv(SeriesSum(p), FromInt(n))
        sqr == [i \in 1..n |-> LET d == FSub(avg, p[i]) IN FMul(d, d)]
    IN  IF n <= 1 THEN NaN ELSE FSqrt(FDiv(SeriesSum(sqr), FromInt(n - 1)))

RECURSIVE FoldMin(_, _, _)
FoldMin(p, i, acc) ==
    IF i > Len(p) THEN acc ELSE FoldMin(p, i + 1, IF FLt(p[i], acc) THEN p[i] ELSE acc)
RECURSIVE FoldMax(_, _, _)
FoldMax(p, i, acc) ==
    IF i > Len(p) THEN acc ELSE FoldMax(p, i + 1, IF FLt(acc, p[i]) THEN p[i] ELSE acc)
\* Series.min() / Series.max(): NaN when no value is present
SeriesMin(series) ==
    LET p == Present(series) IN IF Len(p) = 0 THEN NaN ELSE FoldMin(p, 2, p[1])
SeriesMax(series) ==
    LET p == Present(series) IN IF Len(p) = 0 THEN NaN ELSE FoldMax(p, 2, p[1])

(* ---------------------------- calculators ------------------------------ *)
calculate_control_chart_metrics(data, metric) ==
    LET mean == SeriesMean(Column(data, metric))
        std == SeriesStd(Column(data, metric))
        ucl == FAdd(mean, FMul(FromInt(3), std))
        lcl == FSub(mean, FMul(FromInt(3), std))
    IN  [mean |-> mean, ucl |-> ucl, lcl |-> lcl]

\* max where the code takes min
calculate_process_capability_max(data, metric, lsl, usl) ==
    LET mean == SeriesMean(Column(data, metric))
        std == SeriesStd(Column(data, metric))
        cpu == IF FNe(std, Fin(0)) THEN FDiv(FSub(usl, mean), FMul(FromInt(3), std)) ELSE PosInf
        cpl == IF FNe(std, Fin(0)) THEN FDiv(FSub(mean, lsl), FMul(FromInt(3), std)) ELSE PosInf
        cpk == PyMax(cpu, cpl)
    IN  [cpk |-> cpk, ppk |-> cpk]

\* the std != 0 guard dropped: numpy's x / 0.0 is +inf only for x > 0
calculate_process_capability_noguard(data, metric, lsl, usl) ==
    LET mean == SeriesMean(Column(data, metric))
        std == SeriesStd(Column(data, metric))
        cpu == IF FNe(std, Fin(0)) THEN FDiv(FSub(usl, mean), FMul(FromInt(3), std))
               ELSE IF FLt(mean, usl) THEN PosInf ELSE NaN
        cpl == IF FNe(std, Fin(0)) THEN FDiv(FSub(mean, lsl), FMul(FromInt(3), std))
               ELSE IF FLt(lsl, mean) THEN PosInf ELSE NaN
        cpk == PyMin(cpu, cpl)
    IN  [cpk |-> cpk, ppk |-> cpk]

\* cpl with its operands exchanged
calculate_process_capability_cplflip(data, metric, lsl, usl) ==
    LET mean == SeriesMean(Column(data, metric))
        std == SeriesStd(Column(data, metric))
        cpu == IF FNe(std, Fin(0)) THEN FDiv(FSub(usl, mean), FMul(FromInt(3), std)) ELSE PosInf
        cpl == IF FNe(std, Fin(0)) THEN FDiv(FSub(lsl, mean), FMul(FromInt(3), std)) ELSE PosInf
        cpk == PyMin(cpu, cpl)
    IN  [cpk |-> cpk, ppk |-> cpk]

calculate_process_capability(data, metric, lsl, usl) ==
    LET mean == SeriesMean(Column(data, metric))
        std == SeriesStd(Column(data, metric))
        \* std != 0 is true for a NaN std: the division then yields NaN
        cpu == IF FNe(std, Fin(0)) THEN FDiv(FSub(usl, mean), FMul(FromInt(3), std)) ELSE PosInf
        cpl == IF FNe(std, Fin(0)) THEN FDiv(FSub(mean, lsl), FMul(FromInt(3), std)) ELSE PosInf
        cpk == PyMin(cpu, cpl)
        ppk == cpk
    IN  [cpk |-> cpk, ppk |-> ppk]

(* ------------------------- axis resolution ----------------------------- *)
Timestamps(data) == {data[i].timestamp : i \in 1..Len(data)}
SetMax(S) == CHOOSE m \in S : \A e \in S : e <= m
SetMin(S) == CHOOSE m \in S : \A e \in S : m <= e

\* the span taken from the first and last row instead of min and max
time_range_first_last(data) == data[Len(data)].timestamp - data[1].timestamp
\* (timestamps.max() - timestamps.min()).total_seconds(); whole seconds below
\* 2^53 convert to float exactly, so the span is kept as an integer
time_range_of(data) == SetMax(Timestamps(data)) - SetMin(Timestamps(data))

\* the bucket bounds made exclusive
AxisFor_strict(time_range) ==
    IF time_range < 24 * 60 * 60
    THEN [x_format |-> "%H:%M", x_title |-> "Time", tick_count |-> 5]
    ELSE IF time_range < 30 * 24 * 60 * 60
    THEN [x_format |-> "%b %d", x_title |-> "Date", tick_count |-> 7]
    ELSE IF time_range < 365 * 24 * 60 * 60
    THEN [x_format |-> "%b %Y", x_title |-> "Month", tick_count |-> 6]
    ELSE [x_format |-> "%Y", x_title |-> "Year", tick_count |-> 5]

AxisFor(time_range) ==
    IF time_range <= 24 * 60 * 60
    THEN [x_format |-> "%H:%M", x_title |-> "Time", tick_count |-> 5]
    ELSE IF time_range <= 30 * 24 * 60 * 60
    THEN [x_format |-> "%b %d", x_title |-> "Date", tick_count |-> 7]
    ELSE IF time_range <= 365 * 24 * 60 * 60
    THEN [x_format |-> "%b %Y", x_title |-> "Month", tick_count |-> 6]
    ELSE [x_format |-> "%Y", x_title |-> "Year", tick_count |-> 5]

\* The chart: the x axis chosen from the span, the y encoding from the
\* metric, and the five horizontal rules
create_control_chart(data, metric, mean, ucl, lcl, lsl, usl) ==
    LET time_range == time_range_of(data)
        axis == AxisFor(time_range)
    IN  [time_range |-> time_range,
         x_format |-> axis.x_format,
         x_title |-> axis.x_title,
         tick_count |-> axis.tick_count,
         y |-> metric,
         lines |-> <<mean, ucl, lcl, lsl, usl>>]

(* --------------------------- data provider ----------------------------- *)
\* 1.csv: unreadable, or read as a sequence of rows
Missing == [readable |-> FALSE, rows |-> <<>>]
CsvFile(rows) == [readable |-> TRUE, rows |-> rows]
NoFilter == {}

\* get_manufacturing_data: the rows of 1.csv inside [start_date, end_date]
\* (both dates at midnight), then the campaign and batch filters; the empty
\* DataFrame when reading fails
InRange(r, start_date, end_date) == r.timestamp >= start_date /\ r.timestamp <= end_date
get_manufacturing_data(csv, start_date, end_date, campaign, batch) ==
    IF ~csv.readable THEN <<>>
    ELSE LET dated == SelectSeq(csv.rows, LAMBDA r : InRange(r, start_date, end_date))
             byCampaign == IF campaign # NoFilter
                           THEN SelectSeq(dated, LAMBDA r : r.campaign \in campaign)
                           ELSE dated
             byBatch == IF batch # NoFilter
                        THEN SelectSeq(byCampaign, LAMBDA r : r.batch \in batch)
                        ELSE byCampaign
         IN  byBatch

\* get_unique_values(column): the values of a column of the whole file, [] on
\* failure; the selectbox offers None and each of them
get_unique_values(csv, column) ==
    IF ~csv.readable THEN {} ELSE {csv.rows[i][column] : i \in 1..Len(csv.rows)}
FilterOptions(csv, column) == {NoFilter} \cup {{u} : u \in get_unique_values(csv, column)}

\* data.empty
Empty(data) == Len(data) = 0

(* ------------------- default LSL/USL and the slider -------------------- *)
\* lines 242-251 of the script
SliderSetup(data, metric, mean) ==
    LET metric_min == SeriesMin(Column(data, metric))
        metric_max == SeriesMax(Column(data, metric))
        padding == FMul(FSub(metric_max, metric_min), FDiv(FromInt(1), FromInt(10)))
        slider_min == FSub(metric_min, padding)
        slider_max == FAdd(metric_max, padding)
        std == SeriesStd(Column(data, metric))
    IN  [slider_min |-> slider_min,
         slider_max |-> slider_max,
         default_lsl |-> PyMax(slider_min, FSub(mean, FMul(FromInt(2), std))),
         default_usl |-> PyMin(slider_max, FAdd(mean, FMul(FromInt(2), std)))]

\* st.slider returns its initial value, or the pair the user dragged it to
\* inside [min_value, max_value]
SliderValues(s) == {<<s.default_lsl, s.default_usl>>, <<s.slider_min, s.slider_max>>}

(* ------------------------------- state --------------------------------- *)
VARIABLES
    csv,       \* the file 1.csv
    pc,        \* where the script (or the caller of the calculators) stands
    sel,       \* the widgets: start_date, end_date, metric, campaign, batch
    data,      \* the DataFrame the calculators see
    limits,    \* mean, ucl, lcl of calculate_control_chart_metrics
    slider,    \* slider_min, slider_max, default_lsl, default_usl
    speclim,   \* lsl, usl
    cap,       \* cpk, ppk of calculate_process_capability
    chart,     \* the chart of create_control_chart
    shown,     \* what the page shows: errors, the dashboard
    invoked,   \* the calculators invoked in this run
    prev       \* the call before this one: its arguments and result

vars == <<csv, pc, sel, data, limits, slider, speclim, cap, chart, shown, invoked, prev>>

\* a name the run has not bound yet
None == [none |-> TRUE]
\* what the widgets hold before anything is chosen: the whole date range, the
\* first metric, no filter
NoSel == [start_date |-> 0, end_date |-> 24 * 60 * 60, metric |-> "tbl_speed",
          campaign |-> NoFilter, batch |-> NoFilter]

(* ----------------------- the script, run by run ------------------------ *)
Day == 24 * 60 * 60
\* date_input offers whole days from the first day of the data on
Dates == {0, Day}
FileStamps == {0, Day}
FileRows ==
    {Row(ts, 1, b, v, FromInt(100)) :
        ts \in FileStamps, b \in {1, 2}, v \in {NaN, FromInt(98)}}
Files == {Missing} \cup {CsvFile(rows) : rows \in SeqsUpTo(FileRows, MaxFileRows)}

Init ==
    /\ csv \in Files
    /\ pc = "idle"
    /\ sel = NoSel
    /\ data = <<>>
    /\ limits = None /\ slider = None /\ speclim = None /\ cap = None /\ chart = None
    /\ shown = {}
    /\ invoked = {}
    /\ prev = None

\* Lines 186-229: a (re)run of the script reads the widgets and fetches the data
Rerun ==
    /\ pc \in {"idle", "nodata", "charted"}
    /\ \E start_date \in Dates, end_date \in Dates, metric \in Metrics,
          campaign \in FilterOptions(csv, "campaign"), batch \in FilterOptions(csv, "batch") :
          /\ start_date <= end_date
          /\ sel' = [start_date |-> start_date, end_date |-> end_date, metric |-> metric,
                     campaign |-> campaign, batch |-> batch]
          /\ data' = get_manufacturing_data(csv, start_date, end_date, campaign, batch)
    /\ shown' = IF ~csv.readable THEN {"load_error"} ELSE {}
    /\ invoked' = {}
    /\ limits' = None /\ slider' = None /\ speclim' = None /\ cap' = None /\ chart' = None
    /\ pc' = "fetched"
    /\ UNCHANGED <<csv, prev>>

\* Lines 232-233
NoData ==
    /\ pc = "fetched"
    /\ Empty(data)
    /\ shown' = shown \cup {"no_data"}
    /\ pc' = "nodata"
    /\ UNCHANGED <<csv, sel, data, limits, slider, speclim, cap, chart, invoked, prev>>

\* Lines 234-251
ControlLimits ==
    /\ pc = "fetched"
    /\ ~Empty(data)
    /\ limits' = calculate_control_chart_metrics(data, sel.metric)
    /\ slider' = SliderSetup(data, sel.metric, limits'.mean)
    /\ invoked' = invoked \cup {"calculate_control_chart_metrics"}
    /\ pc' = "limits"
    /\ UNCHANGED <<csv, sel, data, speclim, cap, chart, shown, prev>>

\* Lines 254-261
Capability ==
    /\ pc = "limits"
    /\ \E v \in SliderValues(slider) :
          /\ speclim' = [lsl |-> v[1], usl |-> v[2]]
          /\ cap' = calculate_process_capability(data, sel.metric, v[1], v[2])
    /\ invoked' = invoked \cup {"calculate_process_capability"}
    /\ pc' = "capability"
    /\ UNCHANGED <<csv, sel, data, limits, slider, chart, shown, prev>>

\* Lines 264-280
Tabs ==
    /\ pc = "capability"
    /\ chart' = create_control_chart(data, sel.metric, limits.mean, limits.ucl, limits.lcl,
                                     speclim.lsl, speclim.usl)
    /\ invoked' = invoked \cup {"create_control_chart"}
    /\ shown' = shown \cup {"dashboard"}
    /\ pc' = "charted"
    /\ UNCHANGED <<csv, sel, data, limits, slider, speclim, cap, prev>>

Next == Rerun \/ NoData \/ ControlLimits \/ Capability \/ Tabs

Spec == Init /\ [][Next]_vars

(* --------------- the calculators called on any series ------------------ *)
SeriesValues == {NaN, FromInt(95), FromInt(100), FromInt(105)}
SeriesRows == {Row(0, 1, 1, v, FromInt(100)) : v \in SeriesValues}
SeriesInputs == SeqsUpTo(SeriesRows, MaxSeriesRows)
LimitPool == {FromInt(85), FromInt(95), FromInt(105), FromInt(115)}
\* the pairs with lsl < usl, and one the caller failed to validate
LimitPairs ==
    {p \in LimitPool \X LimitPool : p[1].v < p[2].v} \cup {<<FromInt(115), FromInt(85)>>}

InitCalc ==
    /\ csv = CsvFile(<<>>)
    /\ pc = "call"
    /\ \E metric \in Metrics : sel = [NoSel EXCEPT !.metric = metric]
    /\ data \in SeriesInputs
    /\ limits = None /\ slider = None /\ speclim = None /\ cap = None /\ chart = None
    /\ shown = {}
    /\ invoked = {}
    /\ prev = None

CallControlLimits ==
    /\ pc = "call"
    /\ limits = None
    /\ limits' = calculate_control_chart_metrics(data, sel.metric)
    /\ invoked' = invoked \cup {"calculate_control_chart_metrics"}
    /\ UNCHANGED <<csv, pc, sel, data, slider, speclim, cap, chart, shown, prev>>

\* A behaviour holds a call and the call before it: enough for any two calls
CallCapability ==
    /\ pc = "call"
    /\ limits # None
    /\ prev = None
    /\ \E p \in LimitPairs :
          /\ speclim' = [lsl |-> p[1], usl |-> p[2]]
          /\ cap' = calculate_process_capability(data, sel.metric, p[1], p[2])
    /\ prev' = IF cap = None THEN None
               ELSE [lsl |-> speclim.lsl, usl |-> speclim.usl, cpk |-> cap.cpk]
    /\ invoked' = invoked \cup {"calculate_process_capability"}
    /\ UNCHANGED <<csv, pc, sel, data, limits, slider, chart, shown>>

NextCalc == CallControlLimits \/ CallCapability

SpecCalc == InitCalc /\ [][NextCalc]_vars

(* ------------- create_control_chart called on any data ----------------- *)
ChartStamps == {0, 1, Day + 1, 10 * Day + 1, 30 * Day + 1, 365 * Day + 1}
ChartRows ==
    {Row(ts, 1, 1, FromInt(IF ts % 2 = 0 THEN 95 ELSE 105), FromInt(100)) : ts \in ChartStamps}
ChartInputs == SeqsUpTo(ChartRows, MaxChartRows) \ {<<>>}
\* metric, mean, ucl, lcl, lsl, usl
ChartArgs ==
    {<<"tbl_speed", FromInt(100), FromInt(115), FromInt(85), FromInt(95), FromInt(105)>>,
     <<"fom", NaN, NaN, NaN, FromInt(85), FromInt(115)>>}

\* the span of a data set: the largest difference of two of its timestamps
Span(d) == CHOOSE w \in {a - b : a \in Timestamps(d), b \in Timestamps(d)} :
               \A a \in Timestamps(d), b \in Timestamps(d) : a - b <= w
Axis(c) == <<c.x_format, c.x_title, c.tick_count>>

InitChart ==
    /\ csv = CsvFile(<<>>)
    /\ pc = "call"
    /\ sel = NoSel
    /\ data = <<>>
    /\ limits = None /\ slider = None /\ speclim = None /\ cap = None /\ chart = None
    /\ shown = {}
    /\ invoked = {}
    /\ prev = None

CallChart ==
    /\ pc = "call"
    /\ prev = None
    /\ \E d \in ChartInputs, a \in ChartArgs :
          /\ data' = d
          /\ sel' = [sel EXCEPT !.metric = a[1]]
          /\ limits' = [mean |-> a[2], ucl |-> a[3], lcl |-> a[4]]
          /\ speclim' = [lsl |-> a[5], usl |-> a[6]]
          /\ chart' = create_control_chart(d, a[1], a[2], a[3], a[4], a[5], a[6])
    /\ prev' = IF chart = None THEN None
               ELSE [span |-> Span(data), first |-> data[1].timestamp,
                     axis |-> Axis(chart), y |-> chart.y]
    /\ invoked' = invoked \cup {"create_control_chart"}
    /\ UNCHANGED <<csv, pc, slider, cap, shown>>

NextChart == CallChart

SpecChart == InitChart /\ [][NextChart]_vars

(* ------------------------------ claims --------------------------------- *)
\* the series the calculators were given, and its statistics
TheSeries == Column(data, sel.metric)
Usable == Len(Present(TheSeries))
TheMean == SeriesMean(TheSeries)
TheStd == SeriesStd(TheSeries)
Zero == Fin(0)

\* C1: for every span s >= 0 the axis selection of create_control_chart is
\* (%H:%M, Time, 5) for s <= 86,400; (%b %d, Date, 7) for 86,400 < s <=
\* 2,592,000; (%b %Y, Month, 6) for 2,592,000 < s <= 31,536,000; (%Y, Year, 5)
\* above; s is the largest minus the smallest timestamp.
C1_AxisBuckets ==
    chart # None =>
        LET s == chart.time_range IN
        /\ s = Span(data)
        /\ s >= 0
        /\ s <= 86400 => Axis(chart) = <<"%H:%M", "Time", 5>>
        /\ (s > 86400 /\ s <= 2592000) => Axis(chart) = <<"%b %d", "Date", 7>>
        /\ (s > 2592000 /\ s <= 31536000) => Axis(chart) = <<"%b %Y", "Month", 6>>
        /\ s > 31536000 => Axis(chart) = <<"%Y", "Year", 5>>
        /\ s = 864000 => (chart.x_title = "Date" /\ chart.tick_count = 7)

\* C1 witness: a call on a span of exactly one day, the call before it on one
\* second more
C1_Witness ==
    /\ chart # None /\ prev # None
    /\ chart.time_range = 86400 /\ chart.x_title = "Time"
    /\ prev.span = 86401 /\ prev.axis[2] = "Date"

\* C2: for every series with at least one value, the result of
\* calculate_control_chart_metrics has lcl <= mean <= ucl, and
\* lcl = mean = ucl exactly when std == 0.
C2_LimitsBracketMean ==
    (limits # None /\ Usable >= 1) =>
        /\ FLe(limits.lcl, limits.mean)
        /\ FLe(limits.mean, limits.ucl)
        /\ (FEq(limits.lcl, limits.mean) /\ FEq(limits.mean, limits.ucl)) <=> FEq(TheStd, Zero)

\* the two specification pairs of two capability calls on one series
BothBracketMean ==
    /\ prev # None /\ cap # None
    /\ FLe(prev.lsl, TheMean) /\ FLe(TheMean, prev.usl)
    /\ FLe(speclim.lsl, TheMean) /\ FLe(TheMean, speclim.usl)

Width(lsl, usl) == FSub(usl, lsl)
Contains(lsl2, usl2, lsl1, usl1) == FLe(lsl2, lsl1) /\ FLe(usl1, usl2)
\* cpk1 <= cpk2, or both undefined
NoLess(cpk1, cpk2) == FLe(cpk1, cpk2) \/ (IsNaN(cpk1) /\ IsNaN(cpk2))

\* C3 as stated: with mean and std fixed and both pairs bracketing the mean,
\* the pair of smaller or equal width usl - lsl never has the larger cpk.
C3_WidthMonotone ==
    /\ (BothBracketMean /\ FLe(Width(prev.lsl, prev.usl), Width(speclim.lsl, speclim.usl)))
          => NoLess(prev.cpk, cap.cpk)
    /\ (BothBracketMean /\ FLe(Width(speclim.lsl, speclim.usl), Width(prev.lsl, prev.usl)))
          => NoLess(cap.cpk, prev.cpk)

\* C3 amended: with mean and std fixed and both pairs bracketing the mean, a
\* pair whose interval contains the other's (lsl2 <= lsl1 and usl1 <= usl2)
\* has cpk1 <= cpk2; when std is NaN both cpk are NaN.
C3_ContainmentMonotone ==
    /\ (BothBracketMean /\ Contains(speclim.lsl, speclim.usl, prev.lsl, prev.usl))
          => NoLess(prev.cpk, cap.cpk)
    /\ (BothBracketMean /\ Contains(prev.lsl, prev.usl, speclim.lsl, speclim.usl))
          => NoLess(cap.cpk, prev.cpk)

\* C3 witness: the second interval strictly contains the first and cpk grew
C3_Witness ==
    /\ BothBracketMean
    /\ FLt(speclim.lsl, prev.lsl) /\ FLt(prev.usl, speclim.usl)
    /\ FLt(Zero, prev.cpk) /\ FLt(prev.cpk, cap.cpk)

\* C4: for a series whose std is 0 and any lsl < usl,
\* calculate_process_capability returns cpk = ppk = +infinity, wherever the
\* mean lies.
C4_ZeroStdInfinite ==
    (cap # None /\ FEq(TheStd, Zero) /\ FLt(speclim.lsl, speclim.usl)) =>
        (cap.cpk = PosInf /\ cap.ppk = PosInf)

\* C4 witness: std is 0, the mean lies above usl, and cpk is +infinity
C4_Witness ==
    /\ cap # None
    /\ FEq(TheStd, Zero)
    /\ FLt(speclim.lsl, speclim.usl) /\ FLt(speclim.usl, TheMean)
    /\ cap.cpk = PosInf

Least(a, b) == IF FLe(a, b) THEN a ELSE b

\* C5: ppk is cpk for every input; for std > 0, cpk is the smaller of
\* (usl - mean)/(3 std) and (mean - lsl)/(3 std); mean 100, std 5, lsl 85,
\* usl 115 give cpk = ppk = 1.0.
C5_CpkFormula ==
    cap # None =>
        /\ cap.ppk = cap.cpk
        /\ FLt(Zero, TheStd) =>
              cap.cpk = Least(FDiv(FSub(speclim.usl, TheMean), FMul(FromInt(3), TheStd)),
                              FDiv(FSub(TheMean, speclim.lsl), FMul(FromInt(3), TheStd)))
        /\ (/\ TheMean = FromInt(100) /\ TheStd = FromInt(5)
            /\ speclim.lsl = FromInt(85) /\ speclim.usl = FromInt(115))
              => (cap.cpk = FromInt(1) /\ cap.ppk = FromInt(1))

\* C5 witness: the example, after an asymmetric call
C5_Witness ==
    /\ cap # None /\ prev # None
    /\ TheMean = FromInt(100) /\ TheStd = FromInt(5)
    /\ speclim.lsl = FromInt(85) /\ speclim.usl = FromInt(115)
    /\ cap.cpk = FromInt(1)
    /\ prev.lsl = FromInt(95) /\ prev.usl = FromInt(115) /\ FLt(prev.cpk, cap.cpk)

IsControlLimits(l) ==
    l # None /\ DOMAIN l = {"mean", "ucl", "lcl"}

\* C6: calculate_control_chart_metrics never returns a ControlLimits value
\* for a series with no present value.
C6_EmptySeriesRejected ==
    ("calculate_control_chart_metrics" \in invoked /\ Usable = 0) => ~IsControlLimits(limits)

\* C7: for a series of exactly one value v, mean = ucl = lcl = v, and no
\* calculator returns NaN.
C7_SingleValue ==
    /\ (limits # None /\ Usable = 1) =>
          /\ limits.mean = Present(TheSeries)[1]
          /\ limits.ucl = limits.mean
          /\ limits.lcl = limits.mean
    /\ (cap # None /\ Usable = 1) => (~IsNaN(cap.cpk) /\ ~IsNaN(cap.ppk))

Finished == pc \in {"nodata", "charted"}

\* C9: when the data yield no usable value of the metric, the "no data"
\* error is shown and no calculator is invoked; the calculators are only
\* invoked on a series with at least one usable value.
C9_NoDataGate ==
    /\ (Finished /\ Usable = 0) => ("no_data" \in shown /\ invoked = {})
    /\ invoked # {} => Usable >= 1

AllIdentical == \A i, j \in 1..Usable : Present(TheSeries)[i] = Present(TheSeries)[j]

\* C10: for a non-empty data set with finite std, slider_min <= default_lsl
\* <= mean <= default_usl <= slider_max; default_lsl < default_usl when
\* std > 0, and default_lsl = default_usl when all values are identical.
C10_DefaultsBracketMean ==
    (slider # None /\ IsFin(TheStd)) =>
        /\ FLe(slider.slider_min, slider.default_lsl)
        /\ FLe(slider.default_lsl, limits.mean)
        /\ FLe(limits.mean, slider.default_usl)
        /\ FLe(slider.default_usl, slider.slider_max)
        /\ FLt(Zero, TheStd) => FLt(slider.default_lsl, slider.default_usl)
        /\ AllIdentical => FEq(slider.default_lsl, slider.default_usl)
====
